---- MODULE Spec2Model ----
(***************************************************************************)
(* A model of rust-websocket's WebSocketStream (src/stream.rs) and of its  *)
(* connection error type WebSocketOtherError (src/result.rs).              *)
(*                                                                         *)
(* Spec     the stream: threads issue operations on a stream and on its    *)
(*          clones; the Ssl variant shares one Arc<Mutex<SslStream>>.      *)
(* FairSpec Spec with weak fairness of every thread step.                  *)
(* ErrSpec  the error type: conversions, description, cause, Display.      *)
(***************************************************************************)
EXTENDS Integers, Sequences, FiniteSets, TLC

\* ------------------------------------------------------------- bounds
MaxStreams == 2     \* stream values ever created (the first one and its clones)
MaxOps     == 2     \* operations started over all threads (try_clone, drop aside)
MsgLen     == 2     \* records the SslStream makes of one write call

Threads   == {"t1", "t2"}
NoThread  == "none"
StreamIds == 1 .. MaxStreams

VARIABLES
    streams,     \* stream id -> "unused" | "dropped" | the WebSocketStream value
    fdOpen,      \* the descriptors open on the connection's socket
    sock,        \* the socket: options, shutdown state, bytes sent
    arcStrong,   \* strong count of the Arc around the Mutex<SslStream<TcpStream>>
    handleDrops, \* how many times the SslStream inside the Arc was dropped
    lockHolder,  \* the thread holding the Mutex's guard, or NoThread
    poisoned,    \* the Mutex's poison flag
    pc,          \* thread -> "idle" | "lock" | "call" | "ret" | "panicked"
    op,          \* thread -> the operation in flight
    res,         \* thread -> the result the operation is about to return
    nops,        \* operations started so far
    err,         \* ErrSpec: the WebSocketOtherError under inspection
    seen         \* ErrSpec: what the accessors returned for it

streamVars == <<streams, fdOpen, sock, arcStrong, handleDrops, lockHolder,
                poisoned, pc, op, res, nops>>
errVars    == <<err, seen>>
vars       == <<streamVars, errVars>>

\* ------------------------------------------------------------- values
Unused  == [variant |-> "unused"]
Dropped == [variant |-> "dropped"]

\* enum WebSocketStream { Tcp(TcpStream), Ssl(Arc<Mutex<SslStream<TcpStream>>>) }
\* fd: the descriptor of the TcpStream the value reaches (its own for Tcp, the
\* one inside the shared SslStream for Ssl); shut: the directions this value
\* has shut down.
WebSocketStream(v, fd) == [variant |-> v, fd |-> fd, shut |-> {}]

Live(s) == streams[s].variant \in {"Tcp", "Ssl"}

NoOp == [kind |-> "none", s |-> 0, arg |-> "-", left |-> 0, id |-> 0,
         rep |-> FALSE, own |-> FALSE, was |-> FALSE, afterDrop |-> FALSE]

Directions == {"Read", "Write", "Both"}

\* The operations of the stream and the arguments the model draws for them.
OpArgs ==
    [read |-> {"-"}, write |-> {"-"}, flush |-> {"-"},
     peer_addr |-> {"-"}, local_addr |-> {"-"},
     set_nodelay |-> {"true", "false"},
     set_keepalive |-> {"None", "Some"},
     shutdown |-> Directions,
     set_nonblocking |-> {"true", "false"}]

OpKinds == DOMAIN OpArgs

InFlight(t) == pc[t] \in {"lock", "call", "ret"}
\* A value is borrowed by the operation in flight on it; the value try_clone
\* made is its caller's until it returns.
InUse(s)    == \E t \in Threads :
                  /\ InFlight(t)
                  /\ \/ op[t].s = s
                     \/ op[t].kind = "try_clone" /\ op[t].id = s

ShutsRd(d) == d \in {"Read", "Both"}
ShutsWr(d) == d \in {"Write", "Both"}

\* ------------------------------------------------------------- Init
InitSock ==
    [nodelay |-> FALSE, keepalive |-> "None", nonblocking |-> FALSE,
     shutRd |-> FALSE, shutWr |-> FALSE, sent |-> <<>>]

ErrIdle == /\ err = [variant |-> "none"]
           /\ seen = [from |-> [type |-> "none"], got |-> {},
                      description |-> "", cause |-> <<>>, display |-> ""]

Init ==
    /\ \E v \in {"Tcp", "Ssl"} :
          /\ streams = [s \in StreamIds |->
                          IF s = 1 THEN WebSocketStream(v, 1) ELSE Unused]
          /\ arcStrong = IF v = "Ssl" THEN 1 ELSE 0
    /\ fdOpen = {1}
    /\ sock = InitSock
    /\ handleDrops = 0
    /\ lockHolder = NoThread
    /\ poisoned = FALSE
    /\ pc = [t \in Threads |-> "idle"]
    /\ op = [t \in Threads |-> NoOp]
    /\ res = [t \in Threads |-> "none"]
    /\ nops = 0
    /\ ErrIdle

\* ------------------------------------------------------------- the socket
AlreadyShut(d) == /\ ShutsRd(d) => sock.shutRd
                  /\ ShutsWr(d) => sock.shutWr

\* OsShutdown, the direction ignored: both directions are shut down.
OsShutdownBoth(d) ==
    {[sock |-> [sock EXCEPT !.shutRd = TRUE, !.shutWr = TRUE], res |-> "Ok"]}

\* TcpStream::shutdown, as the set of its outcomes. What a repeated shutdown
\* of a direction returns is the platform's: Ok(()) on Linux,
\* Err(ErrorKind::NotConnected) on macOS.
OsShutdown(d) ==
    {[sock |-> [sock EXCEPT !.shutRd = @ \/ ShutsRd(d),
                            !.shutWr = @ \/ ShutsWr(d)],
      res |-> "Ok"]} \cup
    (IF AlreadyShut(d) THEN {[sock |-> sock, res |-> "NotConnected"]} ELSE {})

\* The bytes of write call id: each byte carries the call it belongs to.
Bytes(id, n) == [i \in 1 .. n |-> id]

\* The call the operation delegates to, on the TcpStream behind descriptor fd
\* (directly for Tcp; through the SslStream, get_ref() or get_mut() for Ssl),
\* as the set of its outcomes. n: the bytes a write hands over in this step.
\* A read returns when the peer has sent; before that it returns only in
\* nonblocking mode, with WouldBlock.
Delegate(o, fd, n) ==
    IF fd \notin fdOpen THEN {[sock |-> sock, res |-> "BadFd"]}
    ELSE CASE o.kind = "read" ->
                IF sock.shutRd THEN {[sock |-> sock, res |-> "Eof"]}
                ELSE {[sock |-> sock, res |-> "Ok"]} \cup
                     (IF sock.nonblocking
                      THEN {[sock |-> sock, res |-> "WouldBlock"]} ELSE {})
           [] o.kind = "write" ->
                IF sock.shutWr THEN {[sock |-> sock, res |-> "BrokenPipe"]}
                ELSE {[sock |-> [sock EXCEPT !.sent = @ \o Bytes(o.id, n)],
                       res |-> "Ok"]}
           [] o.kind \in {"flush", "peer_addr", "local_addr"} ->
                {[sock |-> sock, res |-> "Ok"]}
           [] o.kind = "set_nodelay" ->
                {[sock |-> [sock EXCEPT !.nodelay = (o.arg = "true")],
                  res |-> "Ok"]}
           [] o.kind = "set_keepalive" ->
                {[sock |-> [sock EXCEPT !.keepalive = o.arg], res |-> "Ok"]}
           [] o.kind = "shutdown" -> OsShutdown(o.arg)
           [] o.kind = "set_nonblocking" ->
                {[sock |-> [sock EXCEPT !.nonblocking = (o.arg = "true")],
                  res |-> "Ok"]}

\* ------------------------------------------------------------- operations
\* The operation a thread is in. Before the delegated call of an Ssl arm the
\* kind is "pending": all nine Ssl arms begin with the same
\* inner.lock().expect("lock"), and which of them it is shows only in the
\* delegated call.
NewOp(kind, s, arg, id) ==
    [kind |-> kind, s |-> s, arg |-> arg,
     left |-> IF kind = "write" THEN MsgLen ELSE 0, id |-> id,
     rep |-> FALSE, own |-> FALSE, was |-> FALSE, afterDrop |-> FALSE]

\* What the delegated call records about the state it ran in. rep: this value
\* has already shut this direction down; own: it has shut something down;
\* was: the socket was already shut down in this direction; afterDrop: a
\* value had been dropped.
Seen(o) ==
    [o EXCEPT !.rep = (o.kind = "shutdown" /\ o.arg \in streams[o.s].shut),
              !.own = (streams[o.s].shut # {}),
              !.was = (o.kind = "shutdown" /\ AlreadyShut(o.arg)),
              !.afterDrop = (\E x \in StreamIds : streams[x] = Dropped)]

NoteShut(o, r) ==
    IF o.kind = "shutdown" /\ r = "Ok"
    THEN [streams EXCEPT ![o.s].shut = @ \cup {o.arg}]
    ELSE streams

\* Whether the thread is in an Ssl arm (try_clone takes no guard).
HoldsGuard(t) ==
    /\ op[t].kind # "try_clone"
    /\ streams[op[t].s].variant = "Ssl"

\* A call that takes no guard is one step, and its caller has the result
\* before the next such call is looked at.
Returning == \E u \in Threads : pc[u] = "ret" /\ ~HoldsGuard(u)

\* A thread calls an operation of a value.
Enter(t, s) ==
    /\ pc[t] = "idle"
    /\ Live(s)
    /\ ~InUse(s)
    /\ nops < MaxOps
    /\ nops' = nops + 1

\* The Tcp arm of an operation: the one delegated call on the TcpStream.
TcpArm(t, s, kind, arg) ==
    /\ Enter(t, s)
    /\ ~Returning
    /\ streams[s].variant = "Tcp"
    /\ LET o == NewOp(kind, s, arg, nops + 1) IN
          /\ \E d \in Delegate(o, streams[s].fd, MsgLen) :
                /\ sock' = d.sock
                /\ res' = [res EXCEPT ![t] = d.res]
                /\ streams' = NoteShut(o, d.res)
          /\ op' = [op EXCEPT ![t] = [Seen(o) EXCEPT !.left = 0]]
    /\ pc' = [pc EXCEPT ![t] = "ret"]
    /\ UNCHANGED <<fdOpen, arcStrong, handleDrops, lockHolder, poisoned,
                   errVars>>

\* An Ssl arm, up to inner.lock(): what every operation of the Ssl variant
\* starts with.
SslEnter(t, s) ==
    /\ Enter(t, s)
    /\ streams[s].variant = "Ssl"
    /\ op' = [op EXCEPT ![t] = NewOp("pending", s, "-", nops + 1)]
    /\ pc' = [pc EXCEPT ![t] = "lock"]
    /\ UNCHANGED <<streams, fdOpen, sock, arcStrong, handleDrops,
                   lockHolder, poisoned, res, errVars>>

\* Lock, taking the guard without waiting for its holder to drop it.
LockRacy(t) ==
    /\ pc[t] = "lock"
    /\ IF poisoned
       THEN /\ pc' = [pc EXCEPT ![t] = "panicked"]
            /\ res' = [res EXCEPT ![t] = "panic: lock"]
            /\ op' = [op EXCEPT ![t] = NoOp]
            /\ UNCHANGED lockHolder
       ELSE /\ pc' = [pc EXCEPT ![t] = "call"]
            /\ lockHolder' = t
            /\ UNCHANGED <<res, op>>
    /\ UNCHANGED <<streams, fdOpen, sock, arcStrong, handleDrops,
                   poisoned, nops, errVars>>

\* inner.lock().expect("lock"): blocks while the guard is held elsewhere; a
\* poisoned Mutex yields Err(PoisonError), on which expect panics, and the
\* guard inside the error is dropped by the unwinding.
Lock(t) ==
    /\ pc[t] = "lock"
    /\ lockHolder = NoThread
    /\ IF poisoned
       THEN /\ pc' = [pc EXCEPT ![t] = "panicked"]
            /\ res' = [res EXCEPT ![t] = "panic: lock"]
            /\ op' = [op EXCEPT ![t] = NoOp]
            /\ UNCHANGED lockHolder
       ELSE /\ pc' = [pc EXCEPT ![t] = "call"]
            /\ lockHolder' = t
            /\ UNCHANGED <<res, op>>
    /\ UNCHANGED <<streams, fdOpen, sock, arcStrong, handleDrops,
                   poisoned, nops, errVars>>

\* One step of the delegated call of an Ssl arm, the guard in hand. The
\* SslStream hands a write to its TcpStream one record at a time; every other
\* call is one step.
SslDelegate(t, o) ==
    /\ \E d \in Delegate(o, streams[o.s].fd, 1) :
          /\ sock' = d.sock
          /\ streams' = NoteShut(o, d.res)
          /\ IF o.kind = "write" /\ d.res = "Ok" /\ o.left > 1
             THEN /\ op' = [op EXCEPT ![t] = [o EXCEPT !.left = @ - 1]]
                  /\ UNCHANGED <<pc, res>>
             ELSE /\ op' = [op EXCEPT ![t] =
                              [Seen(o) EXCEPT !.left =
                                  IF d.res = "Ok" THEN 0 ELSE @]]
                  /\ res' = [res EXCEPT ![t] =
                               IF o.kind = "write" /\ o.left < MsgLen
                               THEN "Ok" ELSE d.res]
                  /\ pc' = [pc EXCEPT ![t] = "ret"]
    /\ UNCHANGED <<fdOpen, arcStrong, handleDrops, lockHolder, poisoned,
                   nops, errVars>>

\* The Ssl arm of an operation, after inner.lock(): the delegated call.
SslArm(t, s, kind, arg) ==
    /\ pc[t] = "call"
    /\ op[t].kind = "pending"
    /\ op[t].s = s
    /\ SslDelegate(t, NewOp(kind, s, arg, op[t].id))

\* The SslStream hands over the next record of a write.
SslWriteMore(t) ==
    /\ pc[t] = "call"
    /\ op[t].kind = "write"
    /\ SslDelegate(t, op[t])

\* An operation: match *self, one arm per variant.
Operation(t, s, kind, arg) ==
    \/ TcpArm(t, s, kind, arg)
    \/ SslArm(t, s, kind, arg)

Read(t, s)  == Operation(t, s, "read", "-")
Write(t, s) == Operation(t, s, "write", "-")
Flush(t, s) == Operation(t, s, "flush", "-")
PeerAddr(t, s)  == Operation(t, s, "peer_addr", "-")
LocalAddr(t, s) == Operation(t, s, "local_addr", "-")
SetNodelay(t, s, nodelay) == Operation(t, s, "set_nodelay", nodelay)
SetKeepalive(t, s, delay) == Operation(t, s, "set_keepalive", delay)
Shutdown(t, s, shutdown)  == Operation(t, s, "shutdown", shutdown)
SetNonblocking(t, s, nonblocking) ==
    Operation(t, s, "set_nonblocking", nonblocking)

\* The delegated call panics under the guard: the unwinding drops the guard,
\* which poisons the Mutex and unlocks it.
SslCallPanics(t) ==
    /\ pc[t] = "call"
    /\ pc' = [pc EXCEPT ![t] = "panicked"]
    /\ res' = [res EXCEPT ![t] = "panic: call"]
    /\ op' = [op EXCEPT ![t] = NoOp]
    /\ poisoned' = TRUE
    /\ lockHolder' = IF lockHolder = t THEN NoThread ELSE lockHolder
    /\ UNCHANGED <<streams, fdOpen, sock, arcStrong, handleDrops,
                   nops, errVars>>

\* Unlock, returning with the guard kept (leaked).
UnlockLeaks(t) ==
    /\ pc[t] = "ret"
    /\ HoldsGuard(t)
    /\ pc' = [pc EXCEPT ![t] = "idle"]
    /\ op' = [op EXCEPT ![t] = NoOp]
    /\ res' = [res EXCEPT ![t] = "none"]
    /\ UNCHANGED <<streams, fdOpen, sock, arcStrong, handleDrops, lockHolder,
                   poisoned, nops, errVars>>

\* The end of the Ssl arm: the MutexGuard is dropped, the result returned.
Unlock(t) ==
    /\ pc[t] = "ret"
    /\ HoldsGuard(t)
    /\ lockHolder' = IF lockHolder = t THEN NoThread ELSE lockHolder
    /\ pc' = [pc EXCEPT ![t] = "idle"]
    /\ op' = [op EXCEPT ![t] = NoOp]
    /\ res' = [res EXCEPT ![t] = "none"]
    /\ UNCHANGED <<streams, fdOpen, sock, arcStrong, handleDrops,
                   poisoned, nops, errVars>>

\* The end of a Tcp arm, or of try_clone: the result is returned.
Return(t) ==
    /\ pc[t] = "ret"
    /\ ~HoldsGuard(t)
    /\ pc' = [pc EXCEPT ![t] = "idle"]
    /\ op' = [op EXCEPT ![t] = NoOp]
    /\ res' = [res EXCEPT ![t] = "none"]
    /\ UNCHANGED <<streams, fdOpen, sock, arcStrong, handleDrops,
                   lockHolder, poisoned, nops, errVars>>

\* ------------------------------------------------------------- try_clone, drop
FreeIds == {n \in StreamIds : streams[n] = Unused}
NextId  == CHOOSE n \in FreeIds : \A m \in FreeIds : n <= m

\* try_clone of value s that made value new (0: none); was: the guard was
\* held by a thread at the time.
CloneOp(s, new) ==
    [NoOp EXCEPT !.kind = "try_clone", !.s = s, !.id = new,
                 !.was = (lockHolder # NoThread)]

\* TcpTryClone, the clone taking the original's descriptor instead of a
\* duplicate of it.
TcpTryCloneShares(t, s) ==
    /\ streams[s].variant = "Tcp"
    /\ streams' = [streams EXCEPT
                      ![NextId] = WebSocketStream("Tcp", streams[s].fd)]
    /\ res' = [res EXCEPT ![t] = "Ok"]
    /\ op' = [op EXCEPT ![t] = CloneOp(s, NextId)]
    /\ UNCHANGED <<fdOpen, arcStrong>>

\* WebSocketStream::Tcp(try!(inner.try_clone())): the OS duplicates the
\* descriptor (a new descriptor on the same socket), or fails.
TcpTryClone(t, s) ==
    /\ streams[s].variant = "Tcp"
    /\ \/ /\ streams' = [streams EXCEPT
                            ![NextId] = WebSocketStream("Tcp", NextId)]
          /\ fdOpen' = fdOpen \cup {NextId}
          /\ res' = [res EXCEPT ![t] = "Ok"]
          /\ op' = [op EXCEPT ![t] = CloneOp(s, NextId)]
       \/ /\ res' = [res EXCEPT ![t] = "TooManyFiles"]
          /\ op' = [op EXCEPT ![t] = CloneOp(s, 0)]
          /\ UNCHANGED <<streams, fdOpen>>
    /\ UNCHANGED arcStrong

\* SslTryClone, the clone getting a handle of its own on a duplicate of the
\* descriptor instead of a reference to the shared one.
SslTryCloneCopies(t, s) ==
    /\ streams[s].variant = "Ssl"
    /\ streams' = [streams EXCEPT ![NextId] = WebSocketStream("Ssl", NextId)]
    /\ fdOpen' = fdOpen \cup {NextId}
    /\ arcStrong' = arcStrong + 1
    /\ res' = [res EXCEPT ![t] = "Ok"]
    /\ op' = [op EXCEPT ![t] = CloneOp(s, NextId)]

\* WebSocketStream::Ssl(arc.clone()): one more strong reference to the same
\* Mutex<SslStream<TcpStream>>.
SslTryClone(t, s) ==
    /\ streams[s].variant = "Ssl"
    /\ streams' = [streams EXCEPT
                      ![NextId] = WebSocketStream("Ssl", streams[s].fd)]
    /\ arcStrong' = arcStrong + 1
    /\ res' = [res EXCEPT ![t] = "Ok"]
    /\ op' = [op EXCEPT ![t] = CloneOp(s, NextId)]
    /\ UNCHANGED fdOpen

TryClone(t, s) ==
    /\ pc[t] = "idle"
    /\ Live(s)
    /\ ~InUse(s)
    /\ ~Returning
    /\ FreeIds # {}
    /\ \/ TcpTryClone(t, s)
       \/ SslTryClone(t, s)
    /\ pc' = [pc EXCEPT ![t] = "ret"]
    /\ UNCHANGED <<sock, handleDrops, lockHolder, poisoned, nops, errVars>>

\* A Tcp value goes out of scope: its TcpStream closes its own descriptor.
TcpDrop(s) ==
    /\ streams[s].variant = "Tcp"
    /\ fdOpen' = fdOpen \ {streams[s].fd}
    /\ UNCHANGED <<arcStrong, handleDrops>>

\* SslDrop, every clone dropping the SslStream as if it owned it.
SslDropOwns(s) ==
    /\ streams[s].variant = "Ssl"
    /\ arcStrong' = arcStrong - 1
    /\ fdOpen' = fdOpen \ {streams[s].fd}
    /\ handleDrops' = handleDrops + 1

\* An Ssl value goes out of scope: the Arc loses a strong reference, and the
\* last one to go drops the Mutex and the SslStream in it.
SslDrop(s) ==
    /\ streams[s].variant = "Ssl"
    /\ arcStrong' = arcStrong - 1
    /\ IF arcStrong = 1
       THEN /\ fdOpen' = fdOpen \ {streams[s].fd}
            /\ handleDrops' = handleDrops + 1
       ELSE UNCHANGED <<fdOpen, handleDrops>>

Drop(t, s) ==
    /\ pc[t] = "idle"
    /\ Live(s)
    /\ ~InUse(s)
    /\ \/ TcpDrop(s)
       \/ SslDrop(s)
    /\ streams' = [streams EXCEPT ![s] = Dropped]
    /\ UNCHANGED <<sock, lockHolder, poisoned, pc, op, res, nops, errVars>>

\* ------------------------------------------------------------- Spec
\* The steps of a thread inside an operation.
Step(t) ==
    \/ Lock(t)
    \/ \E s \in StreamIds :
          \/ Read(t, s)
          \/ Write(t, s)
          \/ Flush(t, s)
          \/ PeerAddr(t, s)
          \/ LocalAddr(t, s)
          \/ \E nodelay \in OpArgs.set_nodelay : SetNodelay(t, s, nodelay)
          \/ \E delay \in OpArgs.set_keepalive : SetKeepalive(t, s, delay)
          \/ \E shutdown \in OpArgs.shutdown : Shutdown(t, s, shutdown)
          \/ \E nonblocking \in OpArgs.set_nonblocking :
                SetNonblocking(t, s, nonblocking)
    \/ SslWriteMore(t)
    \/ SslCallPanics(t)
    \/ Unlock(t)
    \/ Return(t)

Next ==
    \/ \E t \in Threads, s \in StreamIds :
          \/ SslEnter(t, s)
          \/ TryClone(t, s)
          \/ Drop(t, s)
    \/ \E t \in Threads : Step(t)

Spec == Init /\ [][Next]_vars

\* A thread inside an operation keeps running: it takes the lock when the
\* lock is free, and its delegated call returns.
Progress(t) ==
    \/ Lock(t)
    \/ \E s \in StreamIds, kind \in OpKinds :
          \E arg \in OpArgs[kind] : SslArm(t, s, kind, arg)
    \/ SslWriteMore(t)
    \/ Unlock(t)
    \/ Return(t)

FairSpec == Spec /\ \A t \in Threads : WF_vars(Progress(t))

\* ------------------------------------------------------------- errors
\* The failures of the collaborators, a few of each.
IoErrors ==
    {[kind |-> "ConnectionReset", description |-> "connection reset"],
     [kind |-> "UnexpectedEof", description |-> "unexpected end of file"]}
HttpErrors  == {[http |-> "Method"], [http |-> "Header"]}
ParseErrors == {[url |-> "EmptyHost"], [url |-> "InvalidPort"]}
TlsErrors   == {[tls |-> "certificate"], [tls |-> "protocol"]}
StatusCodes == {404, 500}
StaticMsgs  == {"Unsupported WebSocket version", "Invalid handshake"}

\* enum WSUrlErrorKind
WSUrlErrorKinds == {"CannotSetFragment", "InvalidScheme", "NoHostName"}

\* native_tls::HandshakeError<T>: Failure(Error) | WouldBlock(MidHandshake<T>),
\* for the intermediate stream types T.
StreamTypes == {"TcpStream", "Box<dyn Stream>"}
TlsHandshakeErrors ==
    {[type |-> "TlsHandshakeError", form |-> "Failure", of |-> T, cause |-> e] :
        T \in StreamTypes, e \in TlsErrors} \cup
    {[type |-> "TlsHandshakeError", form |-> "WouldBlock", of |-> T,
      cause |-> [tls |-> "mid-handshake"]] : T \in StreamTypes}

\* enum HyperIntoWsError, as matched by the conversion.
Defects ==
    {"MethodNotGet", "UnsupportedHttpVersion", "UnsupportedWebsocketVersion",
     "NoSecWsKeyHeader", "NoWsUpgradeHeader", "NoUpgradeHeader",
     "NoWsConnectionHeader", "NoConnectionHeader"}
HyperIntoWsErrors ==
    {[type |-> "HyperIntoWsError", variant |-> "Io", cause |-> e] :
        e \in IoErrors} \cup
    {[type |-> "HyperIntoWsError", variant |-> "Parsing", cause |-> e] :
        e \in HttpErrors} \cup
    {[type |-> "HyperIntoWsError", variant |-> d] : d \in Defects}

\* enum HttpCodecError { Io(io::Error), Http(hyper::Error) }
HttpCodecErrors ==
    {[type |-> "HttpCodecError", variant |-> "Io", cause |-> e] :
        e \in IoErrors} \cup
    {[type |-> "HttpCodecError", variant |-> "Http", cause |-> e] :
        e \in HttpErrors}

\* enum WebSocketOtherError
ProtocolError(msg) == [variant |-> "ProtocolError", msg |-> msg]
RequestError(msg)  == [variant |-> "RequestError", msg |-> msg]
ResponseError(msg) == [variant |-> "ResponseError", msg |-> msg]
StatusCodeError(c) == [variant |-> "StatusCodeError", code |-> c]
HttpError(e)  == [variant |-> "HttpError", cause |-> e]
UrlError(e)   == [variant |-> "UrlError", cause |-> e]
IoError(e)    == [variant |-> "IoError", cause |-> e]
WebSocketUrlError(k) == [variant |-> "WebSocketUrlError", cause |-> k]
TlsError(e)   == [variant |-> "TlsError", cause |-> e]
TlsHandshakeFailure      == [variant |-> "TlsHandshakeFailure"]
TlsHandshakeInterruption == [variant |-> "TlsHandshakeInterruption"]

\* Every value of the enum within the bounds.
WebSocketOtherErrors ==
    {ProtocolError(m) : m \in StaticMsgs} \cup
    {RequestError(m) : m \in StaticMsgs} \cup
    {ResponseError(m) : m \in StaticMsgs} \cup
    {StatusCodeError(c) : c \in StatusCodes} \cup
    {HttpError(e) : e \in HttpErrors} \cup
    {UrlError(e) : e \in ParseErrors} \cup
    {IoError(e) : e \in IoErrors} \cup
    {WebSocketUrlError(k) : k \in WSUrlErrorKinds} \cup
    {TlsError(e) : e \in TlsErrors} \cup
    {TlsHandshakeFailure, TlsHandshakeInterruption}

\* io::Error's own description.
IoDescription(e) == e.description

\* Error::description for WebSocketOtherError
Description(e) ==
    CASE e.variant = "RequestError"  -> "WebSocket request error"
      [] e.variant = "ResponseError" -> "WebSocket response error"
      [] e.variant = "HttpError"     -> "HTTP failure"
      [] e.variant = "UrlError"      -> "URL failure"
      [] e.variant = "TlsError"      -> "TLS failure"
      [] e.variant = "TlsHandshakeFailure" -> "TLS Handshake failure"
      [] e.variant = "TlsHandshakeInterruption" -> "TLS Handshake interrupted"
      [] e.variant = "WebSocketUrlError" -> "WebSocket URL failure"
      [] e.variant = "IoError"       -> IoDescription(e.cause)
      [] e.variant = "ProtocolError" -> e.msg
      [] e.variant = "StatusCodeError" -> "Received unexpected status code"

\* Error::cause without the IoError arm.
CauseUnwrapped(e) ==
    IF e.variant \in {"HttpError", "UrlError", "TlsError", "WebSocketUrlError"}
    THEN <<e.cause>>
    ELSE <<>>

\* Error::cause for WebSocketOtherError: <<c>> is Some(c), <<>> is None.
Cause(e) ==
    CASE e.variant = "HttpError" -> <<e.cause>>
      [] e.variant = "UrlError"  -> <<e.cause>>
      [] e.variant = "TlsError"  -> <<e.cause>>
      [] e.variant = "WebSocketUrlError" -> <<e.cause>>
      [] e.variant = "IoError"   -> <<e.cause>>
      [] OTHER -> <<>>

\* fmt::Display for WebSocketOtherError
Display(e) == "WebSocketError: " \o Description(e)

\* The conversion with its two arms exchanged.
FromTlsHandshakeErrorSwapped(x) ==
    CASE x.form = "Failure"    -> TlsHandshakeInterruption
      [] x.form = "WouldBlock" -> TlsHandshakeFailure

\* impl From<TlsHandshakeError<T>> for WebSocketOtherError
FromTlsHandshakeError(x) ==
    CASE x.form = "Failure"    -> TlsHandshakeFailure
      [] x.form = "WouldBlock" -> TlsHandshakeInterruption

\* impl From<HttpCodecError> for WebSocketOtherError
FromHttpCodecError(x) ==
    CASE x.variant = "Io"   -> IoError(x.cause)
      [] x.variant = "Http" -> HttpError(x.cause)

\* The conversion with one message for all the negotiation defects.
FromHyperIntoWsErrorVague(x) ==
    CASE x.variant = "Io"      -> IoError(x.cause)
      [] x.variant = "Parsing" -> HttpError(x.cause)
      [] OTHER -> ProtocolError("Invalid handshake")

\* impl From<HyperIntoWsError> for WebSocketOtherError
FromHyperIntoWsError(x) ==
    CASE x.variant = "Io"      -> IoError(x.cause)
      [] x.variant = "Parsing" -> HttpError(x.cause)
      [] x.variant = "MethodNotGet" ->
            ProtocolError("Request method must be GET")
      [] x.variant = "UnsupportedHttpVersion" ->
            ProtocolError("Unsupported request HTTP version")
      [] x.variant = "UnsupportedWebsocketVersion" ->
            ProtocolError("Unsupported WebSocket version")
      [] x.variant = "NoSecWsKeyHeader" ->
            ProtocolError("Missing Sec-WebSocket-Key header")
      [] x.variant = "NoWsUpgradeHeader" ->
            ProtocolError("Invalid Upgrade WebSocket header")
      [] x.variant = "NoUpgradeHeader" ->
            ProtocolError("Missing Upgrade WebSocket header")
      [] x.variant = "NoWsConnectionHeader" ->
            ProtocolError("Invalid Connection WebSocket header")
      [] x.variant = "NoConnectionHeader" ->
            ProtocolError("Missing Connection WebSocket header")

\* What has been read from err so far.
Fresh(x) == [from |-> x, got |-> {}, description |-> "", cause |-> <<>>,
             display |-> ""]

Becomes(e, x) ==
    /\ err' = e
    /\ seen' = Fresh(x)
    /\ UNCHANGED streamVars

\* The conversions into WebSocketOtherError.
FromHttp      == \E e \in HttpErrors :
                    Becomes(HttpError(e), [type |-> "HttpError", cause |-> e])
FromParse     == \E e \in ParseErrors :
                    Becomes(UrlError(e), [type |-> "ParseError", cause |-> e])
FromTls       == \E e \in TlsErrors :
                    Becomes(TlsError(e), [type |-> "TlsError", cause |-> e])
FromWSUrl     == \E k \in WSUrlErrorKinds :
                    Becomes(WebSocketUrlError(k),
                            [type |-> "WSUrlErrorKind", cause |-> k])
FromHandshake == \E x \in TlsHandshakeErrors :
                    Becomes(FromTlsHandshakeError(x), x)
FromCodec     == \E x \in HttpCodecErrors : Becomes(FromHttpCodecError(x), x)
FromHyper     == \E x \in HyperIntoWsErrors :
                    Becomes(FromHyperIntoWsError(x), x)

\* The variants no conversion makes, constructed directly.
Construct ==
    \E e \in {v \in WebSocketOtherErrors :
                 v.variant \in {"RequestError", "ResponseError",
                                "ProtocolError", "StatusCodeError"}} :
        Becomes(e, [type |-> "direct"])

HasErr == err.variant # "none"

ReadDescription ==
    /\ HasErr
    /\ seen' = [seen EXCEPT !.got = @ \cup {"description"},
                            !.description = Description(err)]
    /\ UNCHANGED <<err, streamVars>>

ReadCause ==
    /\ HasErr
    /\ seen' = [seen EXCEPT !.got = @ \cup {"cause"}, !.cause = Cause(err)]
    /\ UNCHANGED <<err, streamVars>>

ReadDisplay ==
    /\ HasErr
    /\ seen' = [seen EXCEPT !.got = @ \cup {"display"},
                            !.display = Display(err)]
    /\ UNCHANGED <<err, streamVars>>

ErrNext ==
    \/ FromHttp
    \/ FromParse
    \/ FromTls
    \/ FromWSUrl
    \/ FromHandshake
    \/ FromCodec
    \/ FromHyper
    \/ Construct
    \/ ReadDescription
    \/ ReadCause
    \/ ReadDisplay

ErrSpec == Init /\ [][ErrNext]_vars

\* ------------------------------------------------------------- properties
IsSsl == arcStrong > 0 \/ handleDrops > 0

AtRet(t, kind) == pc[t] = "ret" /\ op[t].kind = kind

Panicked == \E u \in Threads : pc[u] = "panicked"

\* The bytes of each write call are next to each other in what was sent.
Contiguous(q) ==
    \A i, k \in 1 .. Len(q) :
        (i < k /\ q[i] = q[k]) => \A j \in i .. k : q[j] = q[i]

\* C1: on an Ssl stream, the bytes one write call hands to the shared handle
\* are contiguous in what the handle sends: no byte of another thread's write
\* call lies between them.
C1_WriteContiguous == IsSsl => Contiguous(sock.sent)

\* A write is under way, one record handed over, and the other thread waits
\* for the guard.
C1_Witness ==
    \E t, u \in Threads :
        /\ pc[t] = "call" /\ op[t].kind = "write" /\ op[t].left < MsgLen
        /\ pc[u] = "lock"
        /\ Len(sock.sent) > 0

\* The guard is held exactly by the thread between inner.lock() and the
\* return of its Ssl arm.
GuardHeldInArm ==
    /\ lockHolder # NoThread =>
          pc[lockHolder] \in {"call", "ret"} /\ HoldsGuard(lockHolder)
    /\ \A t \in Threads :
          (pc[t] \in {"call", "ret"} /\ HoldsGuard(t)) => lockHolder = t

\* The guard is taken only by inner.lock(), and given up only by the return
\* of the arm (or by the unwinding of a panic).
GuardOncePerArm ==
    \A t \in Threads :
        /\ (lockHolder # t /\ lockHolder' = t) =>
              (pc[t] = "lock" /\ pc'[t] = "call")
        /\ (lockHolder = t /\ lockHolder' # t) =>
              (pc[t] \in {"call", "ret"} /\ pc'[t] \in {"idle", "panicked"})
        /\ (pc[t] = "call" /\ pc'[t] = "ret") => lockHolder' = lockHolder

\* C2: an Ssl operation takes the guard once, makes its delegated call under
\* it and gives it up on return; no thread is left holding or waiting for it:
\* every operation under way returns, unless a thread has panicked.
C2_LockDiscipline ==
    /\ [](IsSsl => GuardHeldInArm)
    /\ [][GuardOncePerArm]_vars
    /\ \A t \in Threads : InFlight(t) ~> (pc[t] = "idle" \/ Panicked)

\* A thread waits at inner.lock() while the other holds the guard in its
\* delegated call.
C2_Witness ==
    \E t, u \in Threads :
        pc[t] = "lock" /\ pc[u] = "call" /\ lockHolder = u

\* C3: with the Mutex poisoned, an operation returns an error to its caller;
\* no thread panics in inner.lock().expect("lock").
C3_PoisonReturnsError ==
    \A t \in Threads : ~(pc[t] = "panicked" /\ res[t] = "panic: lock")

\* Every Ssl value reaches the one shared handle.
SameHandle ==
    \A a, b \in StreamIds :
        (streams[a].variant = "Ssl" /\ streams[b].variant = "Ssl") =>
            streams[a].fd = streams[b].fd

\* What try_clone returns: never an error on Ssl, and a value of the
\* original's variant; an Ssl clone reaches the original's handle.
CloneResult ==
    \A t \in Threads :
        AtRet(t, "try_clone") =>
            /\ streams[op[t].s].variant = "Ssl" => res[t] = "Ok"
            /\ res[t] = "Ok" =>
                  /\ streams[op[t].id].variant = streams[op[t].s].variant
                  /\ streams[op[t].s].variant = "Ssl" =>
                        streams[op[t].id].fd = streams[op[t].s].fd
            /\ res[t] # "Ok" => streams[op[t].s].variant = "Tcp"

\* A step that makes a value touches neither the socket nor the Mutex.
CloneIsLocal ==
    (\E s \in StreamIds : streams[s] = Unused /\ streams'[s] # Unused) =>
        /\ sock' = sock
        /\ lockHolder' = lockHolder
        /\ poisoned' = poisoned

\* C4: try_clone on an Ssl stream always succeeds, touches neither the socket
\* nor the lock, and returns an Ssl value on the same handle and lock, so that
\* every clone acts on and sees the one socket; only a Tcp try_clone can fail,
\* and the clone has the variant of the original.
C4_CloneShares ==
    /\ [](CloneResult /\ SameHandle)
    /\ [][CloneIsLocal]_vars

\* try_clone of an Ssl value returned Ok though the Mutex was poisoned and
\* bytes had been written through the original.
C4_Witness ==
    \E t \in Threads :
        /\ AtRet(t, "try_clone") /\ res[t] = "Ok" /\ poisoned
        /\ streams[op[t].id].variant = "Ssl"
        /\ Len(sock.sent) > 0

\* C5 as stated: a read or write through a Tcp value that has shut nothing
\* down itself succeeds, whatever was closed through its clone.
C5_CloseLeavesOther ==
    \A t \in Threads :
        (pc[t] = "ret" /\ op[t].kind \in {"read", "write"}
            /\ streams[op[t].s].variant = "Tcp" /\ ~op[t].own) =>
                res[t] \notin {"BrokenPipe", "Eof", "BadFd"}

\* C5 amended: a Tcp value's descriptor stays open as long as the value
\* lives, whatever happens to its clones, so that a write through it
\* succeeds exactly when the socket, which the clones share, has not been
\* shut down for writing, and a read meets end of file exactly when it has
\* been shut down for reading.
C5_DropLeavesOther ==
    /\ \A s \in StreamIds :
          streams[s].variant = "Tcp" => streams[s].fd \in fdOpen
    /\ \A t \in Threads :
          (pc[t] = "ret" /\ streams[op[t].s].variant = "Tcp") =>
              /\ op[t].kind = "write" =>
                    /\ res[t] = "Ok" <=> ~sock.shutWr
                    /\ res[t] = "BrokenPipe" <=> sock.shutWr
              /\ op[t].kind = "read" =>
                    /\ res[t] = "Eof" <=> sock.shutRd
                    /\ res[t] \in {"Ok", "WouldBlock", "Eof"}

\* A write through a Tcp value succeeded after its clone (or its original)
\* had been dropped.
C5_Witness ==
    \E t \in Threads :
        /\ AtRet(t, "write") /\ res[t] = "Ok" /\ op[t].afterDrop
        /\ streams[op[t].s].variant = "Tcp"

LiveSsl == {s \in StreamIds : streams[s].variant = "Ssl"}

\* C6: the handle behind the Ssl values is open while a value lives, and is
\* dropped once, when the last value is dropped.
C6_HandleLifetime ==
    IsSsl =>
        /\ arcStrong = Cardinality(LiveSsl)
        /\ LiveSsl # {} =>
              /\ handleDrops = 0
              /\ \A s \in LiveSsl : streams[s].fd \in fdOpen
        /\ LiveSsl = {} => (handleDrops = 1 /\ fdOpen = {})

\* Two Ssl values, the original and a clone, have both been dropped.
C6_Witness ==
    /\ handleDrops = 1
    /\ Cardinality({s \in StreamIds : streams[s] = Dropped}) >= 2

\* C7 as stated: a second shutdown of a direction through the same value
\* returns no error.
C7_SecondShutdownOk ==
    \A t \in Threads :
        (AtRet(t, "shutdown") /\ op[t].rep) => res[t] = "Ok"

\* What shutdown returns: an error only if the socket was already shut down
\* in that direction, and then the platform's NotConnected; the direction is
\* shut down afterwards.
ShutdownResult ==
    \A t \in Threads :
        AtRet(t, "shutdown") =>
            /\ res[t] \in {"Ok", "NotConnected"}
            /\ res[t] = "NotConnected" => op[t].was
            /\ AlreadyShut(op[t].arg)

\* What shutdown does: it shuts down the directions asked for, and nothing
\* else; a repeated one changes nothing.
ShutdownEffect ==
    \A t \in Threads :
        (pc[t] # "ret" /\ pc'[t] = "ret" /\ op'[t].kind = "shutdown") =>
            sock' = [sock EXCEPT !.shutRd = @ \/ ShutsRd(op'[t].arg),
                                 !.shutWr = @ \/ ShutsWr(op'[t].arg)]

\* C7 amended: a shutdown of a direction not yet shut down returns no error;
\* a repeated one changes nothing and returns what the platform returns for
\* it, Ok(()) or Err(NotConnected).
C7_ShutdownRepeat ==
    /\ []ShutdownResult
    /\ [][ShutdownEffect]_vars

\* A second shutdown of a direction through the same value has returned.
C7_Witness ==
    \E t \in Threads : AtRet(t, "shutdown") /\ op[t].rep /\ res[t] = "Ok"

Got(what) == what \in seen.got

\* C8: the conversion of a HyperIntoWsError is total: Io becomes IoError and
\* Parsing becomes HttpError, each with the cause it carried, and each of the
\* eight negotiation defects becomes a ProtocolError with a message no other
\* defect has; for NoSecWsKeyHeader the description is
\* "Missing Sec-WebSocket-Key header" and Display gives
\* "WebSocketError: Missing Sec-WebSocket-Key header".
C8_HyperConversion ==
    seen.from.type = "HyperIntoWsError" =>
        LET x == seen.from IN
        /\ x.variant = "Io" => (err.variant = "IoError" /\ err.cause = x.cause)
        /\ x.variant = "Parsing" =>
              (err.variant = "HttpError" /\ err.cause = x.cause)
        /\ x.variant \in Defects =>
              /\ err.variant = "ProtocolError"
              /\ Got("description") => seen.description = err.msg
              /\ \A y \in HyperIntoWsErrors :
                    (y.variant \in Defects /\ y.variant # x.variant) =>
                        Description(FromHyperIntoWsError(y)) # err.msg
        /\ x.variant = "NoSecWsKeyHeader" =>
              /\ err.msg = "Missing Sec-WebSocket-Key header"
              /\ Got("description") =>
                    seen.description = "Missing Sec-WebSocket-Key header"
              /\ Got("display") =>
                    seen.display =
                        "WebSocketError: Missing Sec-WebSocket-Key header"

\* The missing-key defect has been converted and its description and its
\* Display output read.
C8_Witness ==
    /\ seen.from.type = "HyperIntoWsError"
    /\ seen.from.variant = "NoSecWsKeyHeader"
    /\ Got("description") /\ Got("display")

\* C9: a TLS handshake error becomes TlsHandshakeInterruption from its
\* WouldBlock form and TlsHandshakeFailure from its Failure form, whatever
\* the intermediate stream type; the result carries no cause and cause()
\* returns None.
C9_HandshakeConversion ==
    seen.from.type = "TlsHandshakeError" =>
        /\ seen.from.form = "WouldBlock" => err = TlsHandshakeInterruption
        /\ seen.from.form = "Failure" => err = TlsHandshakeFailure
        /\ DOMAIN err = {"variant"}
        /\ Got("cause") => seen.cause = <<>>

\* A handshake error in its WouldBlock form, over a boxed stream, has been
\* converted and the cause of the result read.
C9_Witness ==
    /\ seen.from.type = "TlsHandshakeError"
    /\ seen.from.form = "WouldBlock"
    /\ seen.from.of = "Box<dyn Stream>"
    /\ Got("cause")

\* C10: description() depends on the variant alone, except that IoError
\* gives the description of the io::Error it wraps and ProtocolError the
\* message it carries; cause() gives the wrapped error for HttpError,
\* UrlError, TlsError, WebSocketUrlError and IoError, and None for the rest;
\* Display gives "WebSocketError: " followed by the description.
C10_Accessors ==
    HasErr =>
        /\ Got("description") =>
              CASE err.variant = "IoError" ->
                      seen.description = err.cause.description
                [] err.variant = "ProtocolError" ->
                      seen.description = err.msg
                [] OTHER ->
                      \A e \in WebSocketOtherErrors :
                          e.variant = err.variant =>
                              Description(e) = seen.description
        /\ Got("cause") =>
              IF err.variant \in {"HttpError", "UrlError", "TlsError",
                                  "WebSocketUrlError", "IoError"}
              THEN seen.cause = <<err.cause>>
              ELSE seen.cause = <<>>
        /\ (Got("display") /\ Got("description")) =>
              seen.display = "WebSocketError: " \o seen.description

\* The description, the cause and the Display output of an IoError have
\* been read.
C10_Witness ==
    /\ HasErr
    /\ err.variant = "IoError"
    /\ seen.got = {"description", "cause", "display"}

====
